---- MODULE Spec2Model ----
(***************************************************************************)
(* A model of rosteron.Session (src/rosteron/__init__.py): the cookie jar  *)
(* of its browser, its exchange log, and the operations log_in,           *)
(* get_roster, log_out, is_logged_in and __exit__, each translated from    *)
(* its code.  The RosterOn server is the environment: every navigation     *)
(* draws the server's answer from a finite set of response shapes.         *)
(*                                                                         *)
(* Python values that may be None are records: None is [none |-> TRUE],    *)
(* a string is [text |-> <<token, ...>>] (its text cut into tokens, so     *)
(* that strip() and partition() are computed, not assumed).                *)
(***************************************************************************)
EXTENDS Integers, Sequences, FiniteSets, TLC

(* ------------------------------ bounds -------------------------------- *)

\* Navigations (calls of _browse) over the life of one Session.
MaxNav == 3

(* ------------------------- values and inputs -------------------------- *)

None == [none |-> TRUE]

Text(tokens) == [text |-> tokens]

AuthCookie == ".ASPXAUTH"

SidCookie == "ASP.NET_SessionId"

CookieNames == {AuthCookie, SidCookie}

\* What a response's Set-Cookie headers do to the jar.
CookieEffects == {"keep", "auth", "clear"}

BadCredsMsg == "Logon failure: unknown user name or bad password."

Usernames == {"joe.bloggs", "ann.other"}

Passwords == {"abc123"}

PageIds == {"account-login", "home-index", "other-page"}

\* Redirect hops before the final response (requests.Response.history): the
\* form's submission and the log-off are the navigations the server redirects
\* (save_logs' docstring: home-0, home-1 and logout-0, logout-1).
Hops == {0, 1}

\* The Date response header: absent, or an HTTP date (a server time).
NoDate == [none |-> TRUE]

ServerTimes == {[server |-> 1]}

ClientTime(n) == [client |-> n]

\* The validation-summary-errors block of a page: absent, or its <li>s,
\* each with its .string (None when the <li> holds more than one node).
NoBlock == [present |-> FALSE, lis |-> <<>>]

Block(lis) == [present |-> TRUE, lis |-> lis]

LiStrings ==
    { Text(<<BadCredsMsg>>),
      Text(<<" ", BadCredsMsg, "\n">>),
      Text(<<"The account is locked.">>),
      None }

ErrBlocks ==
    {NoBlock, Block(<<>>)}
      \cup {Block(<<a>>) : a \in LiStrings}
      \cup {Block(<<Text(<<BadCredsMsg>>), b>>) :
              b \in {Text(<<BadCredsMsg>>), Text(<<"The account is locked.">>)}}

\* The listview of a roster page: absent, or its direct <li> children.
NoList == [present |-> FALSE, lis |-> <<>>]

ListView(lis) == [present |-> TRUE, lis |-> lis]

Divider(string) ==
    [role |-> "list-divider", string |-> string, table |-> FALSE, ps |-> <<>>]

\* A non-divider <li> with its nested table; ps: the table's <p>s in
\* document order, each the sequence of its child nodes.
Shift(ps) == [role |-> "", string |-> None, table |-> TRUE, ps |-> ps]

\* The child nodes of an element: text nodes and elements.
Str(tokens) == [node |-> "text", text |-> tokens, children |-> <<>>]

Elem(tag, children) == [node |-> tag, text |-> <<>>, children |-> children]

Sep == " - "

DividerTue == Divider(Text(<<"Tue 11/06/2019", Sep, "ABCDE", Sep, "Melbourne Office">>))

DividerWed == Divider(Text(<<"Wed 12/06/2019", Sep, "ABCDE">>))

ShiftA ==
    Shift(<< <<Str(<<"10:30", Sep, "18:06">>)>>,
             <<>>,
             <<Str(<<"XYZ">>)>>,
             <<Str(<<"Assistant">>)>> >>)

ShiftB ==
    Shift(<< <<Str(<<"Break">>), Elem("br", <<>>), Str(<<"12:00">>)>>,
             <<Elem("b", <<Str(<<"Night">>)>>)>> >>)

Listings ==
    { NoList,
      ListView(<<>>),
      ListView(<<DividerTue, ShiftA>>),
      ListView(<<ShiftB, DividerTue, ShiftA, ShiftB, DividerWed, ShiftB>>),
      ListView(<<Divider(None)>>),
      ListView(<<Divider(Text(<<"11 June 2019", Sep, "ABCDE">>))>>),
      ListView(<<DividerTue, [role |-> "", string |-> None, table |-> FALSE, ps |-> <<>>]>>) }

\* The shape of the page a response carries:
\*   "nosoup"  not an HTML document (the browser holds no page),
\*   "none"    no element with data-role="page",
\*   "noid"    that element, without an id attribute,
\*   "full"    that element with its id; content: it holds a data-role="content".
Shapes ==
    { [page |-> "nosoup", id |-> "", content |-> FALSE],
      [page |-> "none", id |-> "", content |-> FALSE] }
      \cup [page : {"noid"}, id : {""}, content : BOOLEAN]
      \cup [page : {"full"}, id : PageIds, content : BOOLEAN]

\* What varies in a response whatever its page.  The Date header is read on
\* every navigation and used by get_roster alone: roster responses vary it.
Envelopes == [cookie : CookieEffects, hops : {0}, date : {NoDate}]

RedirectedEnvelopes == [cookie : CookieEffects, hops : Hops, date : {NoDate}]

RosterEnvelopes == [cookie : CookieEffects, hops : {0}, date : {NoDate} \cup ServerTimes]

\* The browser's forms on the page: none, or the login form and its method.
Forms == {"none", "post", "get"}

Response(e, sh, form, errs, list) ==
    [ok |-> TRUE, cookie |-> e.cookie, hops |-> e.hops, date |-> e.date,
     page |-> sh.page, id |-> sh.id, content |-> sh.content,
     form |-> form, errs |-> errs, list |-> list]

\* The transport raised requests.RequestException: there is no response.
TransportFailure ==
    [ok |-> FALSE, cookie |-> "keep", hops |-> 0, date |-> NoDate,
     page |-> "nosoup", id |-> "", content |-> FALSE,
     form |-> "none", errs |-> NoBlock, list |-> NoList]


LoginResponses ==
    {TransportFailure}
      \cup UNION {{Response(e, sh, f, NoBlock, NoList) :
                     e \in Envelopes,
                     f \in (IF sh.page = "full" THEN Forms ELSE {"none"})} :
                  sh \in Shapes}

HomeResponses ==
    {TransportFailure}
      \cup UNION {{Response(e, sh, "none", b, NoList) :
                     e \in RedirectedEnvelopes,
                     b \in (IF sh.page = "full" /\ sh.content THEN ErrBlocks ELSE {NoBlock})} :
                  sh \in Shapes}

RosterResponses ==
    {TransportFailure}
      \cup UNION {{Response(e, sh, "none", NoBlock, l) :
                     e \in RosterEnvelopes,
                     l \in (IF sh.page = "full" /\ sh.content /\ sh.id # "account-login"
                            THEN Listings ELSE {NoList})} :
                  sh \in Shapes}

LogoutResponses ==
    {TransportFailure}
      \cup {Response(e, sh, "none", NoBlock, NoList) : e \in RedirectedEnvelopes, sh \in Shapes}

(* ------------------------------ errors -------------------------------- *)

\* A raised exception: its class, its argument, and its __cause__.
Error(type, arg, cause) == [type |-> type, arg |-> arg, cause |-> cause]

NoError == Error("", "", "")

BadResponseError(purpose, cause) == Error("BadResponseError", purpose, cause)

BadCredentialsError(username) == Error("BadCredentialsError", username, "")

NotLoggedInError == Error("NotLoggedInError", "", "")

RosterOnErrors == {"BadResponseError", "BadCredentialsError", "NotLoggedInError"}

(* ------------------------- the Session's parts ------------------------ *)

\* A session s is [cookies, log, now, sent, form]: the browser's cookie jar,
\* the Session's _log, the client clock, the navigations the running call has
\* made, and the form the browser has selected and filled in.

\* The jar after the browser has taken a response's cookies.
SetCookies(jar, r) ==
    CASE r.cookie = "auth"  -> jar \cup {AuthCookie}
      [] r.cookie = "clear" -> jar \ {AuthCookie}
      [] OTHER              -> jar

is_logged_in(s) == AuthCookie \in s.cookies

\* An HTTP request as save_logs reads it: its method and its URL, the URL's
\* query apart.  (The body of a request is read nowhere.)
HttpRequest(method, url, query) == [method |-> method, url |-> url, query |-> query]

\* The request of a navigation as the browser prepares it: open(url) is a
\* GET of the URL; submit_selected() sends the selected form by the method
\* the form declares, its fields in the query of the URL for GET and in the
\* body for POST.
PreparedRequest(s, url_fragment) ==
    IF url_fragment # "" THEN HttpRequest("GET", url_fragment, <<>>)
    ELSE IF s.form.method = "get"
    THEN HttpRequest("GET", "form action", <<s.form.username, s.form.password>>)
    ELSE HttpRequest("POST", "form action", <<>>)

\* The request of a redirect hop: a GET of the Location the server named.
Redirected == HttpRequest("GET", "Location", <<>>)

\* The requests.Response a navigation returns, as far as the log keeps it:
\* one response per redirect hop in .history, then the final one, each with
\* the request it answers in .request.
Returned(request, r) ==
    [history |-> [i \in 1..r.hops |-> [request |-> IF i = 1 THEN request ELSE Redirected]],
     request |-> IF r.hops = 0 THEN request ELSE Redirected]

_LogEntry(time, response, purpose) ==
    [time |-> time, response |-> response, purpose |-> purpose]

_Response(time, id, content) == [time |-> time, id |-> id, content |-> content]

NoResponse == [none |-> TRUE]

\* page_div.find(attrs={'data-role': 'content'}): the subtree, or None.
Content(r) == IF r.content THEN [errs |-> r.errs, list |-> r.list] ELSE None

\* The exception the body of _browse's try statement raises on the page of
\* r ("" when it returns): soup.find on no soup, None['id'], and
\* Tag.__getitem__ on a tag without the attribute.
PageException(r) ==
    CASE r.page = "nosoup" -> "AttributeError"
      [] r.page = "none"   -> "TypeError"
      [] r.page = "noid"   -> "KeyError"
      [] OTHER             -> ""

\* (bug) an except clause that names AttributeError alone
BrowseCaughtNarrow == {"AttributeError"}

\* The exception classes _browse's except clause turns into BadResponseError.
BrowseCaught == {"AttributeError", "TypeError"}

\* (bug) raise BadResponseError(purpose) without `from e`
TransportErrorUnchained(purpose) == BadResponseError(purpose, "")

\* raise exceptions.BadResponseError(purpose) from e, e the RequestException
TransportError(purpose) == BadResponseError(purpose, "RequestException")

\* (bug) the client time taken whatever the response's headers
ResponseTimeOfClient(r, request_time) == request_time

\* dt: the Date header of the response when it has one, else request_time
ResponseTime(r, request_time) == IF r.date # NoDate THEN r.date ELSE request_time

\* The browser call a navigation makes.
Request(url_fragment, purpose) ==
    [purpose |-> purpose,
     via |-> IF url_fragment # "" THEN "open" ELSE "submit_selected",
     url |-> url_fragment]

\* (bug) self._log = [entry]: the log keeps its latest entry alone
LoggedLatestOnly(entries, entry) == <<entry>>

\* self._log.append(entry)
Logged(entries, entry) == Append(entries, entry)

\* (bug) a _browse that records a response once its page has been accepted
_browse_logs_accepted_only(s, url_fragment, purpose, r) ==
    LET request_time == ClientTime(s.now)
        s1 == [s EXCEPT !.now = @ + 1,
                        !.sent = Append(@, Request(url_fragment, purpose))]
    IN  IF ~r.ok
        THEN [s |-> s1, raised |-> TransportError(purpose), response |-> NoResponse]
        ELSE LET response == Returned(PreparedRequest(s, url_fragment), r)
                 s2 == [s1 EXCEPT !.cookies = SetCookies(@, r)]
                 s3 == [s2 EXCEPT !.log = Logged(@, _LogEntry(request_time, response, purpose))]
                 dt == ResponseTime(r, request_time)
                 exn == PageException(r)
             IN  IF exn = ""
                 THEN [s |-> s3, raised |-> NoError,
                       response |-> _Response(dt, r.id, Content(r))]
                 ELSE IF exn \in BrowseCaught
                 THEN [s |-> s2, raised |-> BadResponseError(purpose, ""),
                       response |-> NoResponse]
                 ELSE [s |-> s2, raised |-> Error(exn, "id", ""),
                       response |-> NoResponse]

\* _browse(url_fragment, purpose) when the server answers r:
\* [s: the session afterwards, raised: the error or NoError, response].
_browse(s, url_fragment, purpose, r) ==
    LET request_time == ClientTime(s.now)
        s1 == [s EXCEPT !.now = @ + 1,
                        !.sent = Append(@, Request(url_fragment, purpose))]
    IN  IF ~r.ok
        THEN [s |-> s1, raised |-> TransportError(purpose), response |-> NoResponse]
        ELSE LET response == Returned(PreparedRequest(s, url_fragment), r)
                 s2 == [s1 EXCEPT !.log = Logged(@, _LogEntry(request_time, response, purpose)),
                                  !.cookies = SetCookies(@, r)]
                 dt == ResponseTime(r, request_time)
                 exn == PageException(r)
             IN  IF exn = ""
                 THEN [s |-> s2, raised |-> NoError,
                       response |-> _Response(dt, r.id, Content(r))]
                 ELSE IF exn \in BrowseCaught
                 THEN [s |-> s2, raised |-> BadResponseError(purpose, ""),
                       response |-> NoResponse]
                 ELSE [s |-> s2, raised |-> Error(exn, "id", ""),
                       response |-> NoResponse]

NoValue == [none |-> TRUE]

Self == [self |-> TRUE]

Result(s, raised, value) == [s |-> s, raised |-> raised, value |-> value]

\* str.strip() on a tokenised string: the whitespace tokens at both ends go.
Whitespace == {" ", "\n"}

RECURSIVE LStrip(_)
LStrip(t) == IF t # <<>> /\ Head(t) \in Whitespace THEN LStrip(Tail(t)) ELSE t

RECURSIVE RStrip(_)
RStrip(t) ==
    IF t # <<>> /\ t[Len(t)] \in Whitespace THEN RStrip(SubSeq(t, 1, Len(t) - 1)) ELSE t

Strip(t) == RStrip(LStrip(t))

\* (bug) log_in that goes on to the submission whatever the fetch of the
\* login page gave
log_in_open_ignores_failure(s, username, password, r) ==
    LET b == _browse(s, "Account/Login", "login", r)
    IN  Result(b.s, NoError, NoValue)

\* log_in, lines 273-275: fetch the login page, select its form, fill it in.
\* raised = NoError: the call goes on to submit the form.
log_in_open(s, username, password, r) ==
    LET b == _browse(s, "Account/Login", "login", r)
    IN  IF b.raised # NoError THEN Result(b.s, b.raised, NoValue)
        ELSE IF r.form = "none"
        THEN Result(b.s, Error("LinkNotFoundError", "", ""), NoValue)
        ELSE Result(b.s, NoError, NoValue)

\* (bug) log_in without its test of the page id: the errors block is read
\* on the home page too
log_in_submit_no_id_test(s, username, r) ==
    LET b == _browse(s, "", "home", r)
        response == b.response
    IN  IF b.raised # NoError THEN Result(b.s, b.raised, NoValue)
        ELSE IF response.content = None \/ ~response.content.errs.present
                  \/ \E i \in DOMAIN response.content.errs.lis :
                        response.content.errs.lis[i] = None
        THEN Result(b.s, Error("AttributeError", "", ""), NoValue)
        ELSE LET lis == response.content.errs.lis
                 errors == [i \in DOMAIN lis |-> Strip(lis[i].text)]
             IN  IF Len(errors) = 1 /\ errors[1] = <<BadCredsMsg>>
                 THEN Result(b.s, BadCredentialsError(username), NoValue)
                 ELSE Result(b.s, BadResponseError("home", ""), NoValue)

\* (bug) log_in that takes the known message anywhere among the errors for
\* bad credentials
log_in_submit_any_error(s, username, r) ==
    LET b == _browse(s, "", "home", r)
        response == b.response
    IN  IF b.raised # NoError THEN Result(b.s, b.raised, NoValue)
        ELSE IF response.id = "home-index" THEN Result(b.s, NoError, Self)
        ELSE IF response.content = None \/ ~response.content.errs.present
                  \/ \E i \in DOMAIN response.content.errs.lis :
                        response.content.errs.lis[i] = None
        THEN Result(b.s, Error("AttributeError", "", ""), NoValue)
        ELSE LET lis == response.content.errs.lis
                 errors == [i \in DOMAIN lis |-> Strip(lis[i].text)]
             IN  IF \E i \in DOMAIN errors : errors[i] = <<BadCredsMsg>>
                 THEN Result(b.s, BadCredentialsError(username), NoValue)
                 ELSE Result(b.s, BadResponseError("home", ""), NoValue)

\* log_in, lines 276-285: submit the form and read the answer.
log_in_submit(s, username, r) ==
    LET b == _browse(s, "", "home", r)
        response == b.response
    IN  IF b.raised # NoError THEN Result(b.s, b.raised, NoValue)
        ELSE IF response.id = "home-index" THEN Result(b.s, NoError, Self)
        ELSE IF response.content = None \/ ~response.content.errs.present
                  \/ \E i \in DOMAIN response.content.errs.lis :
                        response.content.errs.lis[i] = None
        THEN Result(b.s, Error("AttributeError", "", ""), NoValue)
        ELSE LET lis == response.content.errs.lis
                 errors == [i \in DOMAIN lis |-> Strip(lis[i].text)]
             IN  IF Len(errors) = 1 /\ errors[1] = <<BadCredsMsg>>
                 THEN Result(b.s, BadCredentialsError(username), NoValue)
                 ELSE Result(b.s, BadResponseError("home", ""), NoValue)

\* (bug) log_out without its test of is_logged_in
log_out_unguarded(s, r) ==
    LET b == _browse(s, "Account/LogOff", "logout", r)
    IN  Result(b.s, b.raised, NoValue)

\* log_out: one navigation when the auth cookie is in the jar, else nothing.
log_out(s, r) ==
    IF is_logged_in(s)
    THEN LET b == _browse(s, "Account/LogOff", "logout", r)
         IN  Result(b.s, b.raised, NoValue)
    ELSE Result(s, NoError, NoValue)

\* Tag.string of an element with the child nodes `contents`: the text of an
\* only child that is a text node, the .string of an only child that is an
\* element, and None with no child or several.
RECURSIVE String(_)
String(contents) ==
    IF Len(contents) # 1 THEN None
    ELSE IF contents[1].node = "text" THEN Text(contents[1].text)
    ELSE String(contents[1].children)

\* (bug) str.rpartition(' - '): the split at the last separator
PartitionAtLast(t) ==
    LET at == {i \in DOMAIN t : t[i] = Sep}
    IN  IF at = {} THEN [before |-> <<>>, after |-> t]
        ELSE LET i == CHOOSE j \in at : \A k \in at : j >= k
             IN  [before |-> SubSeq(t, 1, i - 1), after |-> SubSeq(t, i + 1, Len(t))]

\* str.partition(' - ') on a tokenised string: the tokens before the first
\* separator and those after it (no separator: everything, and nothing).
Partition(t) ==
    LET at == {i \in DOMAIN t : t[i] = Sep}
    IN  IF at = {} THEN [before |-> t, after |-> <<>>]
        ELSE LET i == CHOOSE j \in at : \A k \in at : j <= k
             IN  [before |-> SubSeq(t, 1, i - 1), after |-> SubSeq(t, i + 1, Len(t))]

Date(y, m, d) == [y |-> y, m |-> m, d |-> d]

\* datetime.strptime(raw_date, '%a %d/%m/%Y').date() on the date strings of
\* the listings; None stands for the ValueError of a string off the format.
StrpDate(raw_date) ==
    CASE raw_date = <<"Tue 11/06/2019">> -> Date(2019, 6, 11)
      [] raw_date = <<"Wed 12/06/2019">> -> Date(2019, 6, 12)
      [] OTHER -> None

Item(date, title, detail) == [date |-> date, title |-> title, detail |-> detail]

Snapshot(time, items) == [time |-> time, items |-> items]

\* (bug) a loop that takes an item's date for granted: an item before any
\* divider raises
RECURSIVE RosterLoopDatedOnly(_, _, _, _, _)
RosterLoopDatedOnly(lis, i, date, title, shifts) ==
    IF i > Len(lis) THEN [raised |-> "", shifts |-> shifts]
    ELSE LET li == lis[i]
         IN  IF li.role = "list-divider"
             THEN IF li.string = None
                  THEN [raised |-> "AttributeError", shifts |-> shifts]
                  ELSE LET parts == Partition(li.string.text)
                           parsed == StrpDate(parts.before)
                       IN  IF parsed = None
                           THEN [raised |-> "ValueError", shifts |-> shifts]
                           ELSE RosterLoopDatedOnly(lis, i + 1, parsed, Text(parts.after), shifts)
             ELSE IF ~li.table \/ date = None
                  THEN [raised |-> "AttributeError", shifts |-> shifts]
                  ELSE RosterLoopDatedOnly(lis, i + 1, date, title,
                                  Append(shifts, Item(date, title,
                                      [k \in DOMAIN li.ps |-> String(li.ps[k])])))

\* (bug) a loop that gives a divider's date and title to the one item after
\* it and forgets them
RECURSIVE RosterLoopForgetful(_, _, _, _, _)
RosterLoopForgetful(lis, i, date, title, shifts) ==
    IF i > Len(lis) THEN [raised |-> "", shifts |-> shifts]
    ELSE LET li == lis[i]
         IN  IF li.role = "list-divider"
             THEN IF li.string = None
                  THEN [raised |-> "AttributeError", shifts |-> shifts]
                  ELSE LET parts == Partition(li.string.text)
                           parsed == StrpDate(parts.before)
                       IN  IF parsed = None
                           THEN [raised |-> "ValueError", shifts |-> shifts]
                           ELSE RosterLoopForgetful(lis, i + 1, parsed, Text(parts.after), shifts)
             ELSE IF ~li.table
                  THEN [raised |-> "AttributeError", shifts |-> shifts]
                  ELSE RosterLoopForgetful(lis, i + 1, None, None,
                                  Append(shifts, Item(date, title,
                                      [k \in DOMAIN li.ps |-> String(li.ps[k])])))

\* The loop of get_roster over the <li>s from the i-th on:
\* [raised: the exception class or "", shifts].
RECURSIVE RosterLoop(_, _, _, _, _)
RosterLoop(lis, i, date, title, shifts) ==
    IF i > Len(lis) THEN [raised |-> "", shifts |-> shifts]
    ELSE LET li == lis[i]
         IN  IF li.role = "list-divider"
             THEN IF li.string = None
                  THEN [raised |-> "AttributeError", shifts |-> shifts]
                  ELSE LET parts == Partition(li.string.text)
                           parsed == StrpDate(parts.before)
                       IN  IF parsed = None
                           THEN [raised |-> "ValueError", shifts |-> shifts]
                           ELSE RosterLoop(lis, i + 1, parsed, Text(parts.after), shifts)
             ELSE IF ~li.table
                  THEN [raised |-> "AttributeError", shifts |-> shifts]
                  ELSE RosterLoop(lis, i + 1, date, title,
                                  Append(shifts, Item(date, title,
                                      [k \in DOMAIN li.ps |-> String(li.ps[k])])))

\* (bug) get_roster without its test for the login page
get_roster_no_login_test(s, r) ==
    LET b == _browse(s, "Roster/List?pageNo=1&row=1", "roster", r)
        response == b.response
    IN  IF b.raised # NoError THEN Result(b.s, b.raised, NoValue)
        ELSE IF response.content = None \/ ~response.content.list.present
        THEN Result(b.s, Error("AttributeError", "", ""), NoValue)
        ELSE LET loop == RosterLoop(response.content.list.lis, 1, None, None, <<>>)
             IN  IF loop.raised # ""
                 THEN Result(b.s, Error(loop.raised, "", ""), NoValue)
                 ELSE Result(b.s, NoError, Snapshot(response.time, loop.shifts))

\* get_roster(): the roster page, NotLoggedInError on the login page, else
\* the Snapshot of the listview's items.
get_roster(s, r) ==
    LET b == _browse(s, "Roster/List?pageNo=1&row=1", "roster", r)
        response == b.response
    IN  IF b.raised # NoError THEN Result(b.s, b.raised, NoValue)
        ELSE IF response.id = "account-login" THEN Result(b.s, NotLoggedInError, NoValue)
        ELSE IF response.content = None \/ ~response.content.list.present
        THEN Result(b.s, Error("AttributeError", "", ""), NoValue)
        ELSE LET loop == RosterLoop(response.content.list.lis, 1, None, None, <<>>)
             IN  IF loop.raised # ""
                 THEN Result(b.s, Error(loop.raised, "", ""), NoValue)
                 ELSE Result(b.s, NoError, Snapshot(response.time, loop.shifts))

\* entry.time.strftime('%Y%m%dT%H%M%S.%fZ'): the stamp of a client time in
\* a file's name, to the microsecond.
Stamp(time) == [yyyymmddThhmmss_ffffffZ |-> time.client]

\* str(entry.time): the first line of a file.
IsoTime(time) == [iso |-> time.client]

\* '{}-{}-{}.txt'.format(stamp, entry.purpose, index)
FileName(entry, index) == <<Stamp(entry.time), entry.purpose, index, "txt">>

\* [*entry.response.history, entry.response]
Exchanges(entry) == Append(entry.response.history, [request |-> entry.response.request])

\* The lines written for one exchange: the entry's time, then the request's
\* method and URL (query included), then what the server sent in that
\* exchange (status, headers and text).
FileLines(entry, index) ==
    LET response == Exchanges(entry)[index + 1]
    IN  <<IsoTime(entry.time),
          <<response.request.method, response.request.url, response.request.query>>,
          <<"response", entry.purpose, index>>>>

\* The files a directory holds after the open('w') and writelines of
\* `writes` (each [e, index, name, lines], in the order of e and index):
\* under every name the lines of the last write to it.
Directory(writes) ==
    LET Later(v, w) == v.e > w.e \/ (v.e = w.e /\ v.index > w.index)
    IN  {[name |-> w.name, lines |-> w.lines] :
           w \in {w \in writes : \A v \in writes : v.name = w.name => ~Later(v, w)}}

\* (bug) save_logs that writes the final response of each entry alone
save_logs_final_only(s) ==
    Directory({[e |-> e, index |-> 0, name |-> FileName(s.log[e], 0),
                lines |-> FileLines(s.log[e], Len(s.log[e].response.history))] :
                 e \in DOMAIN s.log})

\* save_logs(directory), directory empty before: the files in it afterwards.
save_logs(s) ==
    Directory(UNION {{[e |-> e, index |-> index, name |-> FileName(s.log[e], index),
                       lines |-> FileLines(s.log[e], index)] :
                        index \in 0..(Len(Exchanges(s.log[e])) - 1)} :
                     e \in DOMAIN s.log})

\* (bug) an __exit__ that logs out only when the block ended without error
exit_unless_raised(s, e, r) ==
    IF e = NoError
    THEN LET o == log_out(s, r)
         IN  [s |-> o.s, raised |-> o.raised, calls |-> <<"log_out">>, suppress |-> FALSE]
    ELSE [s |-> s, raised |-> NoError, calls |-> <<>>, suppress |-> FALSE]

\* Session.__exit__(exc_type, exc_val, exc_tb): log_out(), then return False.
\* calls: the methods it invokes; suppress: its return value.
__exit__(s, e, r) ==
    LET o == log_out(s, r)
    IN  [s |-> o.s, raised |-> o.raised, calls |-> <<"log_out">>, suppress |-> FALSE]

(* ------------------------------- state -------------------------------- *)

VARIABLES
    cookies,     \* the names in the browser's cookie jar
    log,         \* Session._log
    now,         \* the client clock: _browse calls made so far
    sent,        \* the requests of the current (or last) call, in order
    pc,          \* the caller: "direct", or in a with block ("block"), leaving
                 \* it by an error ("raised"), or just out of it ("left")
    frame,       \* the log_in call between its two navigations, or Idle
    exc,         \* the error in progress in the with block, or NoError
    propagated,  \* the error the with statement has passed to its caller
    last         \* the last call: its arguments, the last response and outcome

vars == <<cookies, log, now, sent, pc, frame, exc, propagated, last>>

Idle == [at |-> "", username |-> "", password |-> "", method |-> ""]

NoResp == [none |-> TRUE]

NoAfter == [op |-> "", raised |-> ""]

Pending == [pending |-> TRUE]

Call(op, username, r, raised, value, calls, after) ==
    [op |-> op, username |-> username, resp |-> r, raised |-> raised,
     value |-> value, calls |-> calls, after |-> after]

\* The session a new call starts on, and the one a running call goes on with.
Fresh == [cookies |-> cookies, log |-> log, now |-> now, sent |-> <<>>, form |-> frame]

Running == [cookies |-> cookies, log |-> log, now |-> now, sent |-> sent, form |-> frame]

\* The caller is free to make its next call: no call is running and the
\* last call's outcome has been taken.
Callable == frame = Idle /\ pc \in {"direct", "block"} /\ last.op = ""

\* A with block keeps one navigation back for the log_out of its exit.
Reserve == IF pc = "block" THEN 1 ELSE 0

Blank == Call("", "", NoResp, NoError, NoValue, <<>>, NoAfter)

Init ==
    /\ cookies \in SUBSET CookieNames
    /\ log = <<>>
    /\ now = 0
    /\ sent = <<>>
    /\ pc = "direct"
    /\ frame = Idle
    /\ exc = NoError
    /\ propagated = NoError
    /\ last = Blank

\* The session after a call's step.
Store(s) ==
    /\ cookies' = s.cookies
    /\ log' = s.log
    /\ now' = s.now
    /\ sent' = s.sent

\* The response a call has read last: r if it navigated at all.
Read(s, r) == IF s.sent = <<>> THEN NoResp ELSE r

\* A call of the caller's ends with result res.
Settle(op, username, r, res) ==
    /\ Store(res.s)
    /\ last' = Call(op, username, Read(res.s, r), res.raised, res.value, <<>>, NoAfter)
    /\ frame' = Idle
    /\ UNCHANGED <<pc, exc, propagated>>

(* ------------------------------ actions ------------------------------- *)

\* `with session:` (AbstractContextManager.__enter__ returns the session).
Enter ==
    /\ Callable
    /\ pc = "direct"
    /\ now + 1 <= MaxNav
    /\ pc' = "block"
    /\ UNCHANGED <<cookies, log, now, sent, frame, exc, propagated, last>>

\* The caller takes the outcome of the last call and goes on: an error
\* raised in a with block leaves the block, anywhere else it is handled.
Continue ==
    /\ frame = Idle
    /\ last.op # ""
    /\ pc \in {"direct", "block", "left"}
    /\ IF pc = "block" /\ last.raised # NoError
       THEN pc' = "raised" /\ exc' = last.raised
       ELSE pc' = (IF pc = "left" THEN "direct" ELSE pc) /\ exc' = NoError
    /\ propagated' = NoError
    /\ last' = Blank
    /\ sent' = <<>>
    /\ UNCHANGED <<cookies, log, now, frame>>

\* session.is_logged_in, read right after the last call returned
IsLoggedIn ==
    /\ frame = Idle
    /\ pc \in {"direct", "block", "left"}
    /\ ~(pc = "block" /\ last.raised # NoError)
    /\ last.op # "is_logged_in"
    /\ last' = Call("is_logged_in", "", NoResp, NoError,
                    [bool |-> is_logged_in(Fresh)], <<>>,
                    [op |-> last.op, raised |-> last.raised.type])
    /\ sent' = <<>>
    /\ UNCHANGED <<cookies, log, now, frame, pc, exc, propagated>>

\* session.log_in(username, password), up to the form's submission
LogInOpen ==
    /\ Callable
    /\ now + 2 + Reserve <= MaxNav
    /\ \E username \in Usernames, password \in Passwords, r \in LoginResponses :
         LET res == log_in_open(Fresh, username, password, r)
         IN  IF res.raised # NoError
             THEN Settle("log_in", username, r, res)
             ELSE /\ Store(res.s)
                  /\ frame' = [at |-> "log_in", username |-> username,
                               password |-> password, method |-> r.form]
                  /\ last' = Call("log_in", username, r, NoError, Pending, <<>>, NoAfter)
                  /\ UNCHANGED <<pc, exc, propagated>>

\* session.log_in(username, password), from the form's submission on
LogInSubmit ==
    /\ frame.at = "log_in"
    /\ \E r \in HomeResponses :
         Settle("log_in", frame.username, r, log_in_submit(Running, frame.username, r))

\* session.get_roster()
GetRoster ==
    /\ Callable
    /\ now + 1 + Reserve <= MaxNav
    /\ \E r \in RosterResponses :
         Settle("get_roster", "", r, get_roster(Fresh, r))

\* session.log_out()
LogOut ==
    /\ Callable
    /\ now + 1 + Reserve <= MaxNav
    /\ \E r \in LogoutResponses :
         Settle("log_out", "", r, log_out(Fresh, r))

\* session.save_logs(directory)
SaveLogs ==
    /\ Callable
    /\ last' = Call("save_logs", "", NoResp, NoError, [files |-> save_logs(Fresh)],
                    <<>>, NoAfter)
    /\ UNCHANGED <<cookies, log, now, sent, pc, frame, exc, propagated>>

\* The with statement ends: the block has finished or raised exc, and the
\* interpreter calls __exit__; what __exit__ raises replaces exc, and exc
\* goes on to the caller unless __exit__ returns a true value.
WithExit ==
    /\ frame = Idle
    /\ pc = "raised" \/ (pc = "block" /\ last.op = "")
    /\ \E r \in LogoutResponses :
         LET x == __exit__(Fresh, exc, r)
         IN  /\ Store(x.s)
             /\ last' = Call("__exit__", "", Read(x.s, r), x.raised, NoValue, x.calls, NoAfter)
             /\ propagated' = IF x.raised # NoError THEN x.raised
                              ELSE IF x.suppress THEN NoError ELSE exc
    /\ pc' = "left"
    /\ UNCHANGED <<frame, exc>>

Next ==
    \/ Enter
    \/ Continue
    \/ IsLoggedIn
    \/ LogInOpen
    \/ LogInSubmit
    \/ GetRoster
    \/ LogOut
    \/ SaveLogs
    \/ WithExit

Spec == Init /\ [][Next]_vars

(* ------------------------------ claims -------------------------------- *)

InWith == pc \in {"block", "raised"}

\* A call has ended and its outcome stands in `last`.
Ended(op) == frame = Idle /\ last.op = op

Count(x, seq) == Cardinality({i \in DOMAIN seq : seq[i] = x})

\* The purpose of the n-th navigation of operation op.
PurposeOf(op, n) ==
    CASE op = "log_in" /\ n = 1 -> "login"
      [] op = "log_in" /\ n = 2 -> "home"
      [] op = "get_roster" -> "roster"
      [] OTHER -> "logout"

IsBadResponse(e, purpose) == e.type = "BadResponseError" /\ e.arg = purpose

\* The page of r has its container, the container's id and the content.
WellFormed(r) == r.ok /\ r.page = "full" /\ r.content

\* r's errors block holds the known message, once and alone (whitespace
\* around the message aside).
ExactBadCreds(r) ==
    /\ r.errs.present
    /\ Len(r.errs.lis) = 1
    /\ r.errs.lis[1] \in {Text(<<BadCredsMsg>>), Text(<<" ", BadCredsMsg, "\n">>)}

\* C1: every step that takes control out of a with block is the call of
\* __exit__, and __exit__ has invoked log_out exactly once, whether the block
\* ended normally or by an error; with the auth cookie in the jar that
\* log_out has sent the one log-off request, without it none.
C1_LogOutOnceOnEveryExit ==
    [][(InWith /\ ~InWith')
          => /\ pc' = "left"
             /\ last'.op = "__exit__"
             /\ Count("log_out", last'.calls) = 1
             /\ sent' = IF AuthCookie \in cookies
                        THEN <<Request("Account/LogOff", "logout")>>
                        ELSE <<>>]_vars

\* C1 witness: a block left by an error, log_out invoked once and on the wire.
C1_Witness ==
    /\ pc = "left"
    /\ exc.type = "NotLoggedInError"
    /\ last.calls = <<"log_out">>
    /\ Len(sent) = 1

\* C2 (as claimed): after a with block left by an error, the caller
\* observes that same error, whatever the log_out of the exit did.
C2_ErrorNeverSuppressed ==
    (pc = "left" /\ exc # NoError) => propagated = exc

\* C3 (as claimed): when the log-off navigation of the exit fails, by the
\* transport or by a malformed page (no container, no id or no content),
\* the with statement raises BadResponseError('logout').
C3_FailedLogoutSignalled ==
    (pc = "left" /\ last.op = "__exit__" /\ sent # <<>> /\ ~WellFormed(last.resp))
        => IsBadResponse(propagated, "logout")

\* C4 (as claimed): once control has left a with block the session is
\* logged out.
C4_LoggedOutAfterWith ==
    pc = "left" => ~is_logged_in(Fresh)

\* C5: a log_out (called directly or by __exit__) that starts without the
\* auth cookie sends nothing, raises nothing, and leaves the jar, the log
\* and the clock as they were; is_logged_in stays false.
C5_LogOutWhenLoggedOutIsNoOp ==
    [][(last' # last /\ last'.op \in {"log_out", "__exit__"} /\ AuthCookie \notin cookies)
          => /\ sent' = <<>>
             /\ last'.raised = NoError
             /\ cookies' = cookies
             /\ log' = log
             /\ now' = now
             /\ AuthCookie \notin cookies']_vars

\* C5 witness: log_out has returned on a session that has talked to the
\* server before and holds no auth cookie, with nothing sent.
C5_Witness ==
    /\ Ended("log_out")
    /\ sent = <<>>
    /\ log # <<>>
    /\ SidCookie \in cookies
    /\ AuthCookie \notin cookies

\* C6: log_in goes on to submit the form whenever the login page has its
\* container, id and form; when the answer to the submission is a page with
\* id 'home-index', log_in returns the session; and is_logged_in read after
\* that return is true exactly when '.ASPXAUTH' is in the jar.
C6_LogInSucceedsOnHome ==
    /\ (last.op = "log_in" /\ Len(sent) = 1 /\ last.resp.ok
          /\ last.resp.page = "full" /\ last.resp.form # "none")
         => (frame.at = "log_in" /\ last.raised = NoError)
    /\ (Ended("log_in") /\ Len(sent) = 2 /\ last.resp.ok
          /\ last.resp.page = "full" /\ last.resp.id = "home-index")
         => (last.raised = NoError /\ last.value = Self)
    /\ (Ended("is_logged_in") /\ last.after = [op |-> "log_in", raised |-> ""])
         => (last.value.bool <=> AuthCookie \in cookies)

\* C6 witness: is_logged_in read true after a log_in that returned.
C6_Witness ==
    /\ Ended("is_logged_in")
    /\ last.after = [op |-> "log_in", raised |-> ""]
    /\ last.value.bool
    /\ Len(log) = 2

\* C7: log_in raises BadCredentialsError exactly when the answer to the
\* submission is a well-formed page other than the home page whose errors
\* block holds the known message once and alone, and the error carries the
\* username of this call.
C7_BadCredentialsExactly ==
    Ended("log_in") =>
        /\ last.raised.type = "BadCredentialsError"
             <=> (Len(sent) = 2 /\ WellFormed(last.resp)
                    /\ last.resp.id # "home-index" /\ ExactBadCreds(last.resp))
        /\ last.raised.type = "BadCredentialsError" => last.raised.arg = last.username

\* C7 witness: BadCredentialsError for the second username.
C7_Witness ==
    /\ Ended("log_in")
    /\ last.username = "ann.other"
    /\ last.raised = BadCredentialsError("ann.other")
    /\ last.resp.errs = Block(<<Text(<<" ", BadCredsMsg, "\n">>)>>)

\* C8 (as claimed): a well-formed answer to the submission that is not the
\* home page and not the exact bad-credentials case makes log_in raise
\* BadResponseError('home'): errors block empty, with several items, with
\* another message, or absent.
C8_OtherShapesAreBadResponse ==
    (Ended("log_in") /\ Len(sent) = 2 /\ WellFormed(last.resp)
       /\ last.resp.id # "home-index" /\ ~ExactBadCreds(last.resp))
        => IsBadResponse(last.raised, "home")

\* C9: a response without the page container (or without any HTML page)
\* makes the navigation, and so the operation that made it, raise
\* BadResponseError with the purpose of that navigation: login, home,
\* roster or logout.
C9_NoContainerIsBadResponse ==
    (last.op \in {"log_in", "get_roster", "log_out", "__exit__"} /\ sent # <<>>
       /\ last.resp.ok /\ last.resp.page \in {"none", "nosoup"})
        => /\ frame = Idle
           /\ IsBadResponse(last.raised, PurposeOf(last.op, Len(sent)))
           /\ last.op = "__exit__" => IsBadResponse(propagated, "logout")

\* C9 witness: the form's submission answered by a page without container.
C9_Witness ==
    /\ Ended("log_in")
    /\ Len(sent) = 2
    /\ last.resp.ok
    /\ last.resp.page = "none"
    /\ last.raised = BadResponseError("home", "")

\* C10 (as claimed): a response whose page container has no id makes the
\* navigation raise BadResponseError with the operation's purpose.
C10_NoIdIsBadResponse ==
    (last.op \in {"log_in", "get_roster", "log_out", "__exit__"} /\ sent # <<>>
       /\ last.resp.ok /\ last.resp.page = "noid")
        => IsBadResponse(last.raised, PurposeOf(last.op, Len(sent)))

\* C11 (as claimed): a response whose page container has its id but no
\* content container makes the navigation raise BadResponseError with the
\* operation's purpose, whichever operation made it, so that no operation
\* goes on with a page result whose content is None.
C11_NoContentIsBadResponse ==
    (last.op \in {"log_in", "get_roster", "log_out", "__exit__"} /\ sent # <<>>
       /\ last.resp.ok /\ last.resp.page = "full" /\ ~last.resp.content)
        => IsBadResponse(last.raised, PurposeOf(last.op, Len(sent)))

\* C12: get_roster answered by a page with id 'account-login' raises
\* NotLoggedInError and returns no Snapshot, whatever the jar holds (the auth
\* cookie in it or not) and whether the page has its content or not.
C12_LoginPageIsNotLoggedIn ==
    (Ended("get_roster") /\ last.resp.ok /\ last.resp.page = "full"
       /\ last.resp.id = "account-login")
        => (last.raised = NotLoggedInError /\ last.value = NoValue)

\* C12 witness: NotLoggedInError with the auth cookie in the jar.
C12_Witness ==
    /\ Ended("get_roster")
    /\ last.resp.ok
    /\ last.resp.id = "account-login"
    /\ AuthCookie \in cookies
    /\ last.raised = NotLoggedInError

\* C13: a navigation whose transport raises RequestException (a browser.open
\* or a form submission) ends the operation with BadResponseError carrying
\* the purpose of that navigation and the transport's exception as its
\* cause; out of __exit__ that error reaches the caller of the with block.
C13_TransportFailureIsBadResponse ==
    (last.op \in {"log_in", "get_roster", "log_out", "__exit__"} /\ sent # <<>>
       /\ ~last.resp.ok)
        => /\ frame = Idle
           /\ last.raised = BadResponseError(PurposeOf(last.op, Len(sent)), "RequestException")
           /\ last.op = "__exit__" => propagated = last.raised

\* C13 witness: the form's submission fails in the transport.
C13_Witness ==
    /\ Ended("log_in")
    /\ Len(sent) = 2
    /\ sent[2].via = "submit_selected"
    /\ ~last.resp.ok
    /\ last.raised = BadResponseError("home", "RequestException")

\* C14 (as claimed): log_in, get_roster and log_out raise nothing but
\* BadResponseError, BadCredentialsError and NotLoggedInError; and
\* get_roster on a well-formed page other than the login page either
\* returns its Snapshot or raises BadResponseError('roster') (no list
\* container, a divider or an item off the expected shape).
C14_OnlyRosterOnErrors ==
    /\ last.op \in {"log_in", "get_roster", "log_out"}
         => last.raised.type \in RosterOnErrors \cup {""}
    /\ (Ended("get_roster") /\ WellFormed(last.resp) /\ last.resp.id # "account-login"
          /\ last.raised # NoError)
         => IsBadResponse(last.raised, "roster")

\* The non-divider <li>s of a listing, by position.
NonDividers(lis) == {i \in DOMAIN lis : lis[i].role # "list-divider"}

\* The k-th position of S in ascending order.
Nth(S, k) == CHOOSE i \in S : Cardinality({j \in S : j < i}) = k - 1

\* The position of the last divider before position i (0: there is none).
DividerBefore(lis, i) ==
    LET D == {j \in 1..(i - 1) : lis[j].role = "list-divider"}
    IN  IF D = {} THEN 0 ELSE CHOOSE j \in D : \A k \in D : k <= j

\* The position of the first separator in a tokenised line.
FirstSep(t) == CHOOSE i \in DOMAIN t : t[i] = Sep /\ \A k \in 1..(i - 1) : t[k] # Sep

\* C15: the Snapshot get_roster returns has one Item per non-divider <li>
\* of the listview, in document order (the k-th Item is read off the k-th
\* non-divider), and each Item that follows a divider carries the date and
\* the title of the last divider before it; dividers give no Item.
C15_OneItemPerNonDivider ==
    (Ended("get_roster") /\ last.raised = NoError) =>
        LET lis == last.resp.list.lis
            items == last.value.items
            N == NonDividers(lis)
        IN  /\ Len(items) = Cardinality(N)
            /\ \A k \in 1..Len(items) :
                 LET i == Nth(N, k)
                     j == DividerBefore(lis, i)
                 IN  /\ items[k].detail = [m \in DOMAIN lis[i].ps |-> String(lis[i].ps[m])]
                     /\ j # 0 =>
                          /\ items[k].date = StrpDate(Partition(lis[j].string.text).before)
                          /\ items[k].title = Text(Partition(lis[j].string.text).after)

\* C15 witness: two items under one divider, then one under the next.
C15_Witness ==
    /\ Ended("get_roster")
    /\ last.raised = NoError
    /\ Len(last.value.items) = 4
    /\ last.value.items[2].date = Date(2019, 6, 11)
    /\ last.value.items[3].date = Date(2019, 6, 11)
    /\ last.value.items[4].date = Date(2019, 6, 12)

\* C16: a divider's line is split at its first ' - ' alone: every Item under
\* the divider has for date the parse of what stands before it and for
\* title all that stands after it, later ' - ' included; the listing
\* 'Tue 11/06/2019 - ABCDE - Melbourne Office' with one item gives one Item
\* of date 2019-06-11 and title 'ABCDE - Melbourne Office'.
C16_SplitAtFirstSeparator ==
    /\ (Ended("get_roster") /\ last.raised = NoError) =>
         LET lis == last.resp.list.lis
             items == last.value.items
         IN  \A k \in 1..Len(items) :
               LET j == DividerBefore(lis, Nth(NonDividers(lis), k))
               IN  j # 0 =>
                     LET line == lis[j].string.text
                     IN  /\ items[k].date = StrpDate(SubSeq(line, 1, FirstSep(line) - 1))
                         /\ items[k].title.text = SubSeq(line, FirstSep(line) + 1, Len(line))
    /\ (Ended("get_roster") /\ WellFormed(last.resp) /\ last.resp.id # "account-login"
          /\ last.resp.list = ListView(<<DividerTue, ShiftA>>)) =>
         /\ last.raised = NoError
         /\ Len(last.value.items) = 1
         /\ last.value.items[1].date = Date(2019, 6, 11)
         /\ last.value.items[1].title = Text(<<"ABCDE", Sep, "Melbourne Office">>)

\* C16 witness: the Item of the example.
C16_Witness ==
    /\ Ended("get_roster")
    /\ last.raised = NoError
    /\ last.value.items =
         <<Item(Date(2019, 6, 11), Text(<<"ABCDE", Sep, "Melbourne Office">>),
                <<Text(<<"10:30", Sep, "18:06">>), None, Text(<<"XYZ">>),
                  Text(<<"Assistant">>)>>)>>

\* The text a <p> holds: the text of its text nodes, those of the elements
\* in it included, in document order.
RECURSIVE ParagraphText(_)
ParagraphText(contents) ==
    IF contents = <<>> THEN <<>>
    ELSE (IF Head(contents).node = "text" THEN Head(contents).text
          ELSE ParagraphText(Head(contents).children))
           \o ParagraphText(Tail(contents))

\* C17 (as claimed): the detail of every Item has one value per <p> of the
\* item's table, in document order: the paragraph's text when it has text,
\* None when it is empty.
C17_DetailPerParagraph ==
    (Ended("get_roster") /\ last.raised = NoError) =>
        LET lis == last.resp.list.lis
            items == last.value.items
        IN  \A k \in 1..Len(items) :
              LET ps == lis[Nth(NonDividers(lis), k)].ps
                  detail == items[k].detail
              IN  /\ Len(detail) = Len(ps)
                  /\ \A m \in 1..Len(ps) :
                       detail[m] = IF ParagraphText(ps[m]) = <<>> THEN None
                                   ELSE Text(ParagraphText(ps[m]))

\* C18: the time of the Snapshot get_roster returns is the Date header of
\* the roster response when the response has one, and otherwise the client
\* time taken as this call's roster request started, which is the time of
\* the log entry this call appended and of no earlier entry.
C18_SnapshotTime ==
    (Ended("get_roster") /\ last.raised = NoError) =>
        /\ last.resp.date # NoDate => last.value.time = last.resp.date
        /\ last.resp.date = NoDate =>
             /\ last.value.time = ClientTime(now - 1)
             /\ last.value.time = log[Len(log)].time
             /\ \A e \in 1..(Len(log) - 1) : log[e].time # last.value.time

\* C18 witness: a Snapshot stamped with the server's time, after a log_in
\* in the same session.
C18_Witness ==
    /\ Ended("get_roster")
    /\ last.raised = NoError
    /\ Len(log) = 3
    /\ last.resp.date \in ServerTimes
    /\ last.value.time = last.resp.date

\* The number of exchanges the log holds: redirect hops + 1, entry by entry.
RECURSIVE ExchangeCount(_)
ExchangeCount(entries) ==
    IF entries = <<>> THEN 0
    ELSE Len(Head(entries).response.history) + 1 + ExchangeCount(Tail(entries))

\* C19: save_logs leaves one file per exchange of every log entry: as many
\* files as the entries' redirect hops + 1 add up to, named by the entry's
\* time, its purpose and the exchange's index from 0; a log of one login,
\* one home and one logout entry without redirects gives the 3 files
\* ending -login-0.txt, -home-0.txt and -logout-0.txt.
C19_OneFilePerExchange ==
    Ended("save_logs") =>
        LET files == last.value.files
            names == {f.name : f \in files}
        IN  /\ Cardinality(files) = ExchangeCount(log)
            /\ names = UNION {{<<Stamp(log[e].time), log[e].purpose, index, "txt">> :
                                 index \in 0..Len(log[e].response.history)} :
                              e \in DOMAIN log}
            /\ (/\ Len(log) = 3
                /\ [e \in 1..3 |-> log[e].purpose] = <<"login", "home", "logout">>
                /\ \A e \in 1..3 : log[e].response.history = <<>>)
                 => /\ Cardinality(files) = 3
                    /\ {SubSeq(n, 2, 4) : n \in names}
                         = {<<"login", 0, "txt">>, <<"home", 0, "txt">>, <<"logout", 0, "txt">>}

\* C19 witness: login, a redirected home and logout saved as 4 files.
C19_Witness ==
    /\ Ended("save_logs")
    /\ Len(log) = 3
    /\ [e \in 1..3 |-> log[e].purpose] = <<"login", "home", "logout">>
    /\ Len(log[2].response.history) = 1
    /\ Cardinality(last.value.files) = 4

\* C20 (as claimed): no file save_logs writes holds a username or a password
\* that was passed to log_in, whatever the method of the login form (so
\* that runs differing in the credentials alone write the same files).
C20_CredentialsNeverWritten ==
    Ended("save_logs") =>
        \A f \in last.value.files :
            \A c \in Usernames \cup Passwords :
                \A i \in DOMAIN f.lines[2][3] : f.lines[2][3][i] # c

\* C21 (as claimed): no operation retries.  get_roster makes one navigation,
\* log_out (called directly or by __exit__) at most one, log_in the fetch of
\* the login page and then at most one submission; a call that has raised
\* is over; and log_in submits nothing once the fetch of the login page has
\* failed, by the transport or by a malformed page (no container, no id or
\* no content).
C21_NoRetry ==
    /\ Ended("get_roster") => sent = <<Request("Roster/List?pageNo=1&row=1", "roster")>>
    /\ last.op \in {"log_out", "__exit__"}
         => sent \in {<<>>, <<Request("Account/LogOff", "logout")>>}
    /\ last.op = "log_in"
         => sent \in {<<Request("Account/Login", "login")>>,
                      <<Request("Account/Login", "login"), Request("", "home")>>}
    /\ last.raised # NoError => frame = Idle
    /\ (last.op = "log_in" /\ Len(sent) = 1 /\ ~WellFormed(last.resp)) => frame = Idle

\* C22 (as claimed): log_out navigates exactly when the auth cookie is in
\* the jar, once, to Account/LogOff with purpose 'logout'; when that
\* navigation fails, by the transport or by a malformed page, log_out raises
\* BadResponseError('logout'); when it succeeds log_out returns, and the
\* auth cookie is gone from the jar exactly when the response removed it.
C22_LogOutWhenLoggedIn ==
    Ended("log_out") =>
        /\ sent = <<>> => AuthCookie \notin cookies
        /\ sent # <<>> =>
             /\ sent = <<Request("Account/LogOff", "logout")>>
             /\ log # <<>> /\ last.resp.ok => log[Len(log)].purpose = "logout"
             /\ ~WellFormed(last.resp) => IsBadResponse(last.raised, "logout")
             /\ WellFormed(last.resp) =>
                  /\ last.raised = NoError
                  /\ AuthCookie \notin cookies <=> last.resp.cookie = "clear"

IsPrefix(a, b) == Len(a) <= Len(b) /\ SubSeq(b, 1, Len(a)) = a

\* C23: the log is append-only: over every step of every call (log_in,
\* get_roster, log_out, save_logs, is_logged_in and the exit of a with
\* block, returning or raising) the log before is a prefix of the log after;
\* and save_logs and is_logged_in leave the log and the jar as they were.
C23_LogIsAppendOnly ==
    [][/\ IsPrefix(log, log')
       /\ (last' # last /\ last'.op \in {"save_logs", "is_logged_in"})
            => (log' = log /\ cookies' = cookies)]_vars

\* C23 witness: is_logged_in read after save_logs, on a log of three entries.
C23_Witness ==
    /\ Ended("is_logged_in")
    /\ last.after.op = "save_logs"
    /\ Len(log) = 3

\* C24: a navigation appends one log entry, with its purpose and the client
\* time of its request, exactly when the transport returned a response,
\* whatever becomes of the response afterwards (a malformed page,
\* BadCredentialsError, NotLoggedInError); a transport failure leaves the
\* log as it was, and so does every step that does not navigate.
C24_LoggedIffResponded ==
    [][IF now' = now + 1 /\ last'.resp.ok
       THEN /\ Len(log') = Len(log) + 1
            /\ IsPrefix(log, log')
            /\ log'[Len(log')].purpose = PurposeOf(last'.op, Len(sent'))
            /\ log'[Len(log')].time = ClientTime(now)
       ELSE log' = log]_vars

\* C24 witness: the response that made log_in raise BadCredentialsError is
\* in the log, and an earlier navigation that failed in the transport is not.
C24_Witness ==
    /\ Ended("log_in")
    /\ last.raised.type = "BadCredentialsError"
    /\ Len(log) = 2
    /\ log[2].purpose = "home"
    /\ now = 3

\* C25: every log entry of purpose 'home' stands right after an entry of
\* purpose 'login' that the same log_in call made: no navigation of the
\* session lies between the two.
C25_HomeFollowsLogin ==
    \A e \in DOMAIN log :
        log[e].purpose = "home" =>
            /\ e > 1
            /\ log[e - 1].purpose = "login"
            /\ log[e].time = ClientTime(log[e - 1].time.client + 1)

\* C25 witness: a log_in recorded after a get_roster of the same session.
C25_Witness ==
    /\ Len(log) = 3
    /\ log[1].purpose = "roster"
    /\ log[2].purpose = "login"
    /\ log[3].purpose = "home"

====
